---- MODULE Spec2Model ----
(***************************************************************************)
(* Model of the volatility term-structure code of Vlab-Tools:              *)
(*   ImpliedForwardVolCalculator  (Forward Volatility Calculator.py)       *)
(*   EventVolatilityExtractor     (Event_Volatility_Extractor.py)          *)
(*                                                                         *)
(* Numbers.  Python floats are modelled by exact rationals [num, den]      *)
(* (den > 0, lowest terms); np.sqrt of a float is modelled by the exact    *)
(* real root, represented by its radicand, with NaN for a negative         *)
(* radicand.  round(x, 2) is modelled on integers in hundredths.           *)
(*                                                                         *)
(* Time.  A date string 'YYYY-MM-DD' is a record [y, m, d]; a datetime is  *)
(* a record [date, tod] with tod the time of day in ticks; None is the     *)
(* record [none |-> TRUE].  The system clock is the variable now.          *)
(***************************************************************************)
EXTENDS Integers, Sequences, FiniteSets, TLC

(* ------------------------------ bounds -------------------------------- *)

\* Input dates are drawn from the MaxDay + 1 days starting at WindowStart.
MaxDay == 3
\* Clock resolution: ticks per calendar day.
TicksPerDay == 2
\* The clock advances at most MaxTicks ticks from ClockStart.
MaxTicks == 3
\* Longest expiry list handed to create_forward_vol_matrix.
MaxN == 3

(* ------------------------------ dates --------------------------------- *)

None == [none |-> TRUE]

IsNone(x) == "none" \in DOMAIN x

\* isinstance(x, str): a date string is a [y, m, d] record.
IsStr(x) == "y" \in DOMAIN x

MkDate(y, m, d) == [y |-> y, m |-> m, d |-> d]

IsLeap(y) == (y % 4 = 0) /\ ((y % 100 # 0) \/ (y % 400 = 0))

DaysInMonth(y, m) ==
    IF m = 2 THEN (IF IsLeap(y) THEN 29 ELSE 28)
    ELSE IF m \in {4, 6, 9, 11} THEN 30 ELSE 31

DaysBeforeYear(y) ==
    LET p == y - 1 IN p * 365 + (p \div 4) - (p \div 100) + (p \div 400)

RECURSIVE DaysBeforeMonth(_, _)
DaysBeforeMonth(y, m) ==
    IF m <= 1 THEN 0 ELSE DaysBeforeMonth(y, m - 1) + DaysInMonth(y, m - 1)

\* date.toordinal(): the proleptic Gregorian day number of a date.
Ordinal(dt) == DaysBeforeYear(dt.y) + DaysBeforeMonth(dt.y, dt.m) + dt.d

IsValidDate(dt) ==
    /\ dt.m \in 1..12
    /\ dt.d \in 1..DaysInMonth(dt.y, dt.m)

\* The day after a date (the clock rolling over midnight).
NextDay(dt) ==
    IF dt.d < DaysInMonth(dt.y, dt.m) THEN MkDate(dt.y, dt.m, dt.d + 1)
    ELSE IF dt.m < 12 THEN MkDate(dt.y, dt.m + 1, 1)
    ELSE MkDate(dt.y + 1, 1, 1)

\* datetime.strptime(s, '%Y-%m-%d'): midnight of the day the string names.
Strptime(s) == [date |-> s, tod |-> 0]

\* expiry.strftime('%Y-%m-%d'): the date string of a datetime (time dropped).
Strftime(x) == x.date

\* "if isinstance(d, str): d = datetime.strptime(d, '%Y-%m-%d')"
ToDatetime(x) == IF IsStr(x) THEN Strptime(x) ELSE x

\* (b - a).days: timedelta.days is the floor of the difference in days.
TimedeltaDays(a, b) ==
    ((Ordinal(b.date) - Ordinal(a.date)) * TicksPerDay + b.tod - a.tod)
        \div TicksPerDay

\* ImpliedForwardVolCalculator._calculate_days_between(date1, date2)
CalculateDaysBetween(date1, date2) ==
    TimedeltaDays(ToDatetime(date1), ToDatetime(date2))

(* ---------------------------- rationals ------------------------------- *)

Abs(x) == IF x < 0 THEN -x ELSE x

RECURSIVE GCD(_, _)
GCD(a, b) == IF b = 0 THEN a ELSE GCD(b, a % b)

\* The rational n/d in lowest terms with a positive denominator (d # 0).
Rat(n, d) ==
    LET g == GCD(Abs(n), Abs(d))
        s == IF d < 0 THEN -1 ELSE 1
    IN [num |-> s * (n \div g), den |-> s * (d \div g)]

RInt(n) == [num |-> n, den |-> 1]

RMul(a, b) ==
    LET g1 == GCD(Abs(a.num), b.den)
        g2 == GCD(Abs(b.num), a.den)
    IN Rat((a.num \div g1) * (b.num \div g2), (a.den \div g2) * (b.den \div g1))

RAdd(a, b) ==
    LET g == GCD(a.den, b.den)
        l == (a.den \div g) * b.den
    IN Rat(a.num * (l \div a.den) + b.num * (l \div b.den), l)

RNeg(a) == [num |-> -a.num, den |-> a.den]

RSub(a, b) == RAdd(a, RNeg(b))

\* a / k for an integer k # 0.
RDivInt(a, k) ==
    LET g == GCD(Abs(a.num), Abs(k))
    IN Rat(a.num \div g, a.den * (k \div g))

RIsNeg(a) == a.num < 0

RIsZero(a) == a.num = 0

(* ------------------- floats that went through np.sqrt ----------------- *)

\* The float 0.0 (np.zeros fills the matrix with it).
FloatZero == [nan |-> FALSE, sq |-> RInt(0)]

\* np.sqrt(x) for a Python float x: NaN (with a RuntimeWarning, no exception)
\* when x < 0, the non-negative root otherwise (kept as its radicand).
NpSqrt(x) ==
    IF RIsNeg(x) THEN [nan |-> TRUE, sq |-> RInt(0)]
    ELSE [nan |-> FALSE, sq |-> x]

(* ------------------- ImpliedForwardVolCalculator ---------------------- *)

\* The message of the only exception the calculator raises itself.
OrderingError == "ValueError: Second expiry must be after first expiry"

\* What Python raises for a division by zero.
ZeroDivisionError == "ZeroDivisionError: division by zero"

\* "if t2 <= t1:"
OrderingViolated_Strict(t1, t2) == t2 < t1
OrderingViolated(t1, t2) == t2 <= t1

\* "vol1 = vol1 / 100"
PctToDecimal(vol) == RDivInt(RInt(vol), 100)

\* "trade_date = trade_date or datetime.now()" then the str conversion.
ResolveTradeDate(trade_date, clock) ==
    IF IsNone(trade_date) THEN clock ELSE ToDatetime(trade_date)

\* "forward_var = (total_var2 - total_var1) / (t2 - t1)"
ForwardVar_Swapped(total_var1, total_var2, t1, t2) ==
    RDivInt(RSub(total_var1, total_var2), t2 - t1)
ForwardVar(total_var1, total_var2, t1, t2) ==
    RDivInt(RSub(total_var2, total_var1), t2 - t1)

\* calculate_forward_variance: the outcome and the locals at exit.  assigned
\* names the locals the call has assigned when it exits.
CalculateForwardVariance(vol1, date1, vol2, date2, trade_date, clock) ==
    LET v1 == PctToDecimal(vol1)
        v2 == PctToDecimal(vol2)
        d1 == ToDatetime(date1)
        d2 == ToDatetime(date2)
        td == ResolveTradeDate(trade_date, clock)
        t1 == CalculateDaysBetween(td, d1)
        t2 == CalculateDaysBetween(td, d2)
        base == [kind |-> "raised", error |-> OrderingError,
                 value |-> RInt(0), read_clock |-> IsNone(trade_date),
                 trade |-> td, t1 |-> t1, t2 |-> t2,
                 assigned |-> {"vol1", "vol2", "t1", "t2"},
                 var1 |-> RInt(0), var2 |-> RInt(0),
                 total_var1 |-> RInt(0), total_var2 |-> RInt(0)]
    IN IF OrderingViolated(t1, t2) THEN base
       ELSE LET var1 == RMul(v1, v1)
                var2 == RMul(v2, v2)
                total_var1 == RMul(var1, RInt(t1))
                total_var2 == RMul(var2, RInt(t2))
                sofar == [base EXCEPT
                            !.assigned = @ \cup {"var1", "var2", "total_var1",
                                                 "total_var2"},
                            !.var1 = var1, !.var2 = var2,
                            !.total_var1 = total_var1,
                            !.total_var2 = total_var2]
            IN IF t2 - t1 = 0
               THEN [sofar EXCEPT !.error = ZeroDivisionError]
               ELSE [sofar EXCEPT
                        !.kind = "returned", !.error = "",
                        !.assigned = @ \cup {"forward_var"},
                        !.value = ForwardVar(total_var1, total_var2, t1, t2)]

\* calculate_forward_vol: the dates are converted, then
\* "return np.sqrt(self.calculate_forward_variance(...))".
CalculateForwardVol(vol1, date1, vol2, date2, trade_date, clock) ==
    LET d1 == ToDatetime(date1)
        d2 == ToDatetime(date2)
        td == IF ~IsNone(trade_date) /\ IsStr(trade_date)
              THEN Strptime(trade_date) ELSE trade_date
        fv == CalculateForwardVariance(vol1, d1, vol2, d2, td, clock)
    IN [kind |-> fv.kind, error |-> fv.error,
        value |-> IF fv.kind = "returned" THEN NpSqrt(fv.value) ELSE FloatZero,
        variance |-> fv]

(* ---------------------- create_forward_vol_matrix --------------------- *)

\* "for j in range(i+1, n)": the first column visited in row i.
FirstColumn_Diagonal(i) == i
FirstColumn(i) == i + 1

\* The position of the nested loops "for i in range(n): for j in
\* range(i+1, n)" when row i is at column j: the next cell to compute, or
\* done.
RECURSIVE LoopFrom(_, _, _)
LoopFrom(i, j, n) ==
    IF i >= n THEN [done |-> TRUE, i |-> n, j |-> n]
    ELSE IF j < n THEN [done |-> FALSE, i |-> i, j |-> j]
    ELSE LoopFrom(i + 1, FirstColumn(i + 1), n)

\* "matrix = np.zeros((n, n))"
NpZeros(n) == [a \in 0..(n - 1) |-> [b \in 0..(n - 1) |-> FloatZero]]

\* The expiry_dates list built from expiries.
ExpiryDates(expiries, n) == [k \in 0..(n - 1) |-> ToDatetime(expiries[k])]

\* The index / columns labels of the DataFrame.
Labels(expiry_dates, n) == [k \in 0..(n - 1) |-> Strftime(expiry_dates[k])]

(* ---------------------- EventVolatilityExtractor --------------------- *)

RAbs(a) == [num |-> Abs(a.num), den |-> a.den]

\* a <= b
RLeq(a, b) == ~RIsNeg(RSub(b, a))

\* The largest r in lo..hi with r * r <= n (given lo * lo <= n).
RECURSIVE ISqrtBetween(_, _, _)
ISqrtBetween(n, lo, hi) ==
    IF lo >= hi THEN lo
    ELSE LET mid == (lo + hi + 1) \div 2
         IN IF mid * mid <= n THEN ISqrtBetween(n, mid, hi)
            ELSE ISqrtBetween(n, lo, mid - 1)

\* floor(sqrt(n)) for an integer n >= 0.
ISqrt(n) == ISqrtBetween(n, 0, IF n < 46340 THEN n ELSE 46340)

\* The integer nearest to sqrt(x) for a rational x >= 0 (a square root of a
\* rational is never half-way between two integers).
RoundSqrt(x) ==
    LET qf == x.num \div x.den
        rem == x.num % x.den
        r == ISqrt(qf)
    IN IF qf > r * r + r \/ (qf = r * r + r /\ 4 * rem > x.den)
       THEN r + 1 ELSE r

\* round(x, 2) of an exactly known x: the nearest multiple of 1/100, a tie
\* going to the even one.
Round2(x) ==
    LET h == RMul(x, RInt(100))
        f == h.num \div h.den
        rem == h.num - f * h.den
        k == IF 2 * rem < h.den THEN f
             ELSE IF 2 * rem > h.den THEN f + 1
             ELSE IF f % 2 = 0 THEN f ELSE f + 1
    IN Rat(k, 100)

\* "days_after_event = (expiry_dt - event_dt).days"
DaysAfterEvent_FromTrade(trade_dt, expiry_dt, event_dt) ==
    TimedeltaDays(trade_dt, expiry_dt)
DaysAfterEvent(trade_dt, expiry_dt, event_dt) ==
    TimedeltaDays(event_dt, expiry_dt)

\* "pre_event_vol = expiry_atf_vol * 0.8"
PreEventVol(expiry_atf_vol) == RMul(expiry_atf_vol, Rat(8, 10))

\* "post_event_vol = expiry_atf_vol * 0.9"
PostEventVol(expiry_atf_vol) == RMul(expiry_atf_vol, Rat(9, 10))

\* "round(event_vol * 100, 2)" with
\* "event_vol = expiry_atf_vol * np.sqrt(expected_move_size * 2)":
\* NaN for a negative move, else sign(vol) * sqrt(vol^2 * 2 * move) in percent,
\* rounded to hundredths.
EventVolPct(expiry_atf_vol, expected_move_size) ==
    LET arg == RMul(expected_move_size, RInt(2))
        root == NpSqrt(arg)
        sq == RMul(RMul(expiry_atf_vol, expiry_atf_vol), root.sq)
        k == RoundSqrt(RMul(sq, RInt(100000000)))
    IN [nan |-> root.nan,
        val |-> IF root.nan THEN RInt(0)
                ELSE Rat(IF RIsNeg(expiry_atf_vol) THEN -k ELSE k, 100)]

\* extract_volatilities: the dictionary it returns.  calendar_model is not
\* read.  The volatilities are percentages rounded to two decimals.
ExtractVolatilities(trade_date, expiry_date, event_date, expiry_atf_vol_pct, expected_move_size_pct, calendar_model) ==
    LET trade_dt == Strptime(trade_date)
        expiry_dt == Strptime(expiry_date)
        event_dt == Strptime(event_date)
        expiry_atf_vol == PctToDecimal(expiry_atf_vol_pct)
        expected_move_size == PctToDecimal(expected_move_size_pct)
        total_days == TimedeltaDays(trade_dt, expiry_dt)
        days_to_event == TimedeltaDays(trade_dt, event_dt)
        days_after_event == DaysAfterEvent(trade_dt, expiry_dt, event_dt)
        pre_event_vol == PreEventVol(expiry_atf_vol)
        event_vol == EventVolPct(expiry_atf_vol, expected_move_size)
        post_event_vol == PostEventVol(expiry_atf_vol)
    IN [kind |-> "returned", error |-> "",
        pre_event_vol |-> Round2(RMul(pre_event_vol, RInt(100))),
        event_vol |-> event_vol.val,
        event_vol_nan |-> event_vol.nan,
        post_event_vol |-> Round2(RMul(post_event_vol, RInt(100))),
        total_days |-> total_days,
        days_to_event |-> days_to_event,
        days_after_event |-> days_after_event]

(* ------------------------------ inputs -------------------------------- *)

\* 2024-02-28: the window spans the leap day and a month boundary.
WindowStart == MkDate(2024, 2, 28)

\* The dates of the example at the end of the calculator's file, and the
\* event date of the day-count scenario.
ExampleTrade == MkDate(2024, 3, 1)
ExampleExpiry1 == MkDate(2024, 3, 21)
ExampleExpiry2 == MkDate(2024, 3, 31)
ExampleEvent == MkDate(2024, 3, 10)

WindowDates ==
    {dt \in [y : {2024}, m : 2..3, d : 1..31] :
        /\ IsValidDate(dt)
        /\ Ordinal(dt) - Ordinal(WindowStart) \in 0..MaxDay}

DateInputs ==
    WindowDates \cup {ExampleTrade, ExampleExpiry1, ExampleExpiry2, ExampleEvent}

TradeDateInputs == DateInputs \cup {None}

\* Volatilities in percent: a negative one, zero, and the example's 40, 42.
VolInputs == {-10, 0, 40, 42}

\* Expected move sizes in percent; 50 makes sqrt(2 * move) exactly 1.
MoveInputs == {-5, 0, 5, 50}

CalendarModels == {"calendar", "business"}

\* Expiry dates and vols of the lists handed to create_forward_vol_matrix.
MatrixDates == {dt \in WindowDates : Ordinal(dt) - Ordinal(WindowStart) < MaxDay}

MatrixVols == {20, 40}

(* ------------------------------- state -------------------------------- *)

VARIABLES
    now,    \* the system clock, a datetime
    call,   \* the last call of a calculator / extractor method, with its outcome
    mx,     \* the create_forward_vol_matrix call in progress, or its outcome
    prev    \* an earlier forward-variance / forward-vol call the caller repeats

vars == <<now, call, mx, prev>>

NoCall == [op |-> "none"]

\* No create_forward_vol_matrix call.  Lists are functions on 0..n-1.  log
\* holds, per cell computed, the clock value calculate_forward_variance read
\* and its t1 and t2.
NoMatrix ==
    [pc |-> "idle", n |-> 0, expiries |-> <<>>, vols |-> <<>>,
     expiry_dates |-> <<>>, matrix |-> <<>>, writes |-> <<>>,
     pos |-> LoopFrom(0, 0, 0), log |-> <<>>, error |-> "",
     index |-> <<>>, columns |-> <<>>]

\* The clock starts at midnight of 2024-02-27, the day before the window.
ClockStart == Strptime(MkDate(2024, 2, 27))

Init ==
    /\ now = ClockStart
    /\ call = NoCall
    /\ mx = NoMatrix
    /\ prev = NoCall

\* The create_forward_vol_matrix call has ended.
MxTerminal == mx.pc \in {"returned", "raised"}

\* No call is in flight, no outcome is held by a caller and no earlier call
\* is remembered.
Idle == call.op = "none" /\ mx.pc = "idle" /\ prev.op = "none"

\* The caller is done with the outcome of the last call.
Discard ==
    /\ call.op # "none" \/ MxTerminal \/ prev.op # "none"
    /\ call' = NoCall
    /\ mx' = NoMatrix
    /\ prev' = NoCall
    /\ UNCHANGED now

\* The arguments and the outcome of a call, without the time it was made at.
Remembered(c) ==
    [op |-> c.op, vol1 |-> c.vol1, date1 |-> c.date1, vol2 |-> c.vol2,
     date2 |-> c.date2, trade_date |-> c.trade_date, out |-> c.out]

\* The caller keeps the arguments and the outcome of the forward-variance
\* or forward-vol call just made, to make the same call again later.
Retain ==
    /\ call.op \in {"calculate_forward_variance", "calculate_forward_vol"}
    /\ prev' = Remembered(call)
    /\ call' = NoCall
    /\ UNCHANGED <<now, mx>>

\* The caller repeats the remembered call with identical arguments.
RepeatCall ==
    /\ call.op = "none"
    /\ prev.op # "none"
    /\ call' = [op |-> prev.op,
                vol1 |-> prev.vol1, date1 |-> prev.date1,
                vol2 |-> prev.vol2, date2 |-> prev.date2,
                trade_date |-> prev.trade_date, clock |-> now,
                out |-> IF prev.op = "calculate_forward_variance"
                        THEN CalculateForwardVariance(prev.vol1, prev.date1,
                                 prev.vol2, prev.date2, prev.trade_date, now)
                        ELSE CalculateForwardVol(prev.vol1, prev.date1,
                                 prev.vol2, prev.date2, prev.trade_date, now)]
    /\ UNCHANGED <<now, mx, prev>>

\* Time passes: the clock advances by one tick, between calls or between
\* two steps of a create_forward_vol_matrix call.  (The other calls are
\* atomic, and an outcome a caller holds does not change with time.)
Tick ==
    /\ call.op = "none"
    /\ ~MxTerminal
    /\ LET nxt == IF now.tod + 1 < TicksPerDay
                  THEN [now EXCEPT !.tod = @ + 1]
                  ELSE [date |-> NextDay(now.date), tod |-> 0]
       IN /\ (Ordinal(nxt.date) - Ordinal(ClockStart.date)) * TicksPerDay
                + nxt.tod <= MaxTicks
          /\ now' = nxt
    /\ UNCHANGED <<call, mx, prev>>

\* A caller invokes calculate_forward_variance.
CallForwardVariance ==
    /\ Idle
    /\ \E vol1 \in VolInputs, vol2 \in VolInputs,
          date1 \in DateInputs, date2 \in DateInputs,
          trade_date \in TradeDateInputs :
        /\ call' = [op |-> "calculate_forward_variance",
                    vol1 |-> vol1, date1 |-> date1,
                    vol2 |-> vol2, date2 |-> date2,
                    trade_date |-> trade_date, clock |-> now,
                    out |-> CalculateForwardVariance(vol1, date1, vol2, date2,
                                                     trade_date, now)]
        /\ UNCHANGED <<now, mx, prev>>

\* A caller invokes calculate_forward_vol.
CallForwardVol ==
    /\ Idle
    /\ \E vol1 \in VolInputs, vol2 \in VolInputs,
          date1 \in DateInputs, date2 \in DateInputs,
          trade_date \in TradeDateInputs :
        /\ call' = [op |-> "calculate_forward_vol",
                    vol1 |-> vol1, date1 |-> date1,
                    vol2 |-> vol2, date2 |-> date2,
                    trade_date |-> trade_date, clock |-> now,
                    out |-> CalculateForwardVol(vol1, date1, vol2, date2,
                                                trade_date, now)]
        /\ UNCHANGED <<now, mx, prev>>

\* A caller invokes extract_volatilities.
CallExtractVolatilities ==
    /\ Idle
    /\ \E trade_date \in DateInputs, expiry_date \in DateInputs,
          event_date \in DateInputs, vol \in VolInputs,
          move \in MoveInputs, calendar_model \in CalendarModels :
        /\ call' = [op |-> "extract_volatilities",
                    trade_date |-> trade_date, expiry_date |-> expiry_date,
                    event_date |-> event_date, expiry_atf_vol |-> vol,
                    expected_move_size |-> move,
                    calendar_model |-> calendar_model,
                    out |-> ExtractVolatilities(trade_date, expiry_date,
                                                event_date, vol, move,
                                                calendar_model)]
        /\ UNCHANGED <<now, mx, prev>>

\* A caller invokes create_forward_vol_matrix: the matrix is allocated,
\* the expiries are converted and the loops start.
MatrixStart ==
    /\ Idle
    /\ \E n \in 0..MaxN :
         \E expiries \in [0..(n - 1) -> MatrixDates],
            vols \in [0..(n - 1) -> MatrixVols] :
            mx' = [NoMatrix EXCEPT
                     !.pc = "fill", !.n = n,
                     !.expiries = expiries, !.vols = vols,
                     !.matrix = NpZeros(n),
                     !.writes = [a \in 0..(n - 1) |-> [b \in 0..(n - 1) |-> 0]],
                     !.expiry_dates = ExpiryDates(expiries, n),
                     !.pos = LoopFrom(0, FirstColumn(0), n)]
    /\ UNCHANGED <<now, call, prev>>

\* One pass of the inner loop body: calculate_forward_vol is called without
\* a trade date, so it reads the clock; its exception ends the call, its
\* value is stored in matrix[i][j].
MatrixCell ==
    /\ mx.pc = "fill"
    /\ ~mx.pos.done
    /\ LET i == mx.pos.i
           j == mx.pos.j
           r == CalculateForwardVol(mx.vols[i], mx.expiry_dates[i],
                                    mx.vols[j], mx.expiry_dates[j], None, now)
       IN IF r.kind = "raised"
          THEN mx' = [mx EXCEPT !.pc = "raised", !.error = r.error]
          ELSE mx' = [mx EXCEPT
                        !.matrix[i][j] = r.value,
                        !.writes[i][j] = @ + 1,
                        !.log = Append(@, [i |-> i, j |-> j, clock |-> now,
                                           t1 |-> r.variance.t1,
                                           t2 |-> r.variance.t2]),
                        !.pos = LoopFrom(i, j + 1, mx.n)]
    /\ UNCHANGED <<now, call, prev>>

\* The loops are over: the DataFrame is built and returned.
MatrixReturn ==
    /\ mx.pc = "fill"
    /\ mx.pos.done
    /\ mx' = [mx EXCEPT !.pc = "returned",
                        !.index = Labels(mx.expiry_dates, mx.n),
                        !.columns = Labels(mx.expiry_dates, mx.n)]
    /\ UNCHANGED <<now, call, prev>>

Next ==
    \/ Tick
    \/ Discard
    \/ Retain
    \/ RepeatCall
    \/ CallForwardVariance
    \/ CallForwardVol
    \/ CallExtractVolatilities
    \/ MatrixStart
    \/ MatrixCell
    \/ MatrixReturn

Spec == Init /\ [][Next]_vars

(* ------------------------- reading a call ----------------------------- *)

\* The last call ran calculate_forward_variance, directly or from
\* calculate_forward_vol.
FvCall == call.op \in {"calculate_forward_variance", "calculate_forward_vol"}

\* The outcome of that calculate_forward_variance call.
FvOut ==
    IF call.op = "calculate_forward_vol" THEN call.out.variance ELSE call.out

\* The forward-variance outcome of the remembered call.
PrevOut ==
    IF prev.op = "calculate_forward_vol" THEN prev.out.variance ELSE prev.out

\* The trade date of the call: the one supplied, else the clock at the call.
FvTrade ==
    IF IsNone(call.trade_date) THEN call.clock ELSE Strptime(call.trade_date)

\* t1 = days(trade_date, date1) and t2 = days(trade_date, date2) of the call.
FvT1 == TimedeltaDays(FvTrade, Strptime(call.date1))
FvT2 == TimedeltaDays(FvTrade, Strptime(call.date2))

VarianceLocals == {"var1", "var2", "total_var1", "total_var2", "forward_var"}

MxIndices == 0..(mx.n - 1)

\* No two entries of the expiry list have the same date.
MxDistinct ==
    \A a, b \in MxIndices : a # b => mx.expiries[a] # mx.expiries[b]

(* ------------------------------ claims -------------------------------- *)

\* C1: a call of calculate_forward_variance with t2 <= t1 ends in the
\* ordering error, whatever the vols, and no variance has been computed
\* when it is raised.
C1_OrderingEnforced ==
    (FvCall /\ FvT2 <= FvT1) =>
        /\ FvOut.kind = "raised"
        /\ FvOut.error = OrderingError
        /\ FvOut.assigned \cap VarianceLocals = {}

\* C1 witness: a call with t2 = t1 (two equal expiries) and a negative vol
\* has ended in the ordering error.
C1_Witness ==
    /\ call.op = "calculate_forward_variance"
    /\ FvT2 = FvT1
    /\ call.vol1 < 0
    /\ call.out.kind = "raised"
    /\ call.out.error = OrderingError

\* C2: whenever calculate_forward_variance returns fv,
\* fv * (t2 - t1) + vol1^2 * t1 = vol2^2 * t2 with the vols in decimal form;
\* the example (trade 2024-03-01, 40% at t1 = 20, 42% at t2 = 30) gives
\* 0.2092.
C2_Reconstruction ==
    (FvCall /\ FvOut.kind = "returned") =>
        /\ RAdd(RMul(FvOut.value, RInt(FvT2 - FvT1)),
                RMul(Rat(call.vol1 * call.vol1, 10000), RInt(FvT1)))
             = RMul(Rat(call.vol2 * call.vol2, 10000), RInt(FvT2))
        /\ ( /\ call.trade_date = ExampleTrade
             /\ call.date1 = ExampleExpiry1 /\ call.vol1 = 40
             /\ call.date2 = ExampleExpiry2 /\ call.vol2 = 42 )
           => /\ FvT1 = 20
              /\ FvT2 = 30
              /\ FvOut.value = Rat(2092, 10000)

\* C2 witness: the example call has returned.
C2_Witness ==
    /\ call.op = "calculate_forward_variance"
    /\ call.trade_date = ExampleTrade
    /\ call.date1 = ExampleExpiry1 /\ call.vol1 = 40
    /\ call.date2 = ExampleExpiry2 /\ call.vol2 = 42
    /\ call.out.kind = "returned"

\* C3: whenever the forward variance of a calculate_forward_vol call (with
\* non-negative vols) is negative, the call ends in an error and returns no
\* value (no NaN), and a forward variance of exactly zero returns 0.
C3_NegativeVarianceGuard ==
    (call.op = "calculate_forward_vol" /\ FvOut.kind = "returned"
        /\ call.vol1 >= 0 /\ call.vol2 >= 0) =>
        /\ RIsNeg(FvOut.value) => call.out.kind = "raised"
        /\ RIsZero(FvOut.value) =>
              (call.out.kind = "returned" /\ call.out.value = FloatZero)

\* C4: calculate_forward_variance called with a negative vol1 or vol2 ends
\* in a ValidationError and returns no value, also when the dates are
\* validly ordered (t2 > t1).
C4_NegativeVolRejected ==
    (call.op = "calculate_forward_variance"
        /\ (call.vol1 < 0 \/ call.vol2 < 0)
        /\ FvT2 > FvT1) =>
        /\ call.out.kind = "raised"
        /\ call.out.error \notin {OrderingError, ZeroDivisionError}

\* The dates of an extract_volatilities call are strictly ordered:
\* trade_date < event_date < expiry_date.
EvOrdered ==
    /\ Ordinal(call.trade_date) < Ordinal(call.event_date)
    /\ Ordinal(call.event_date) < Ordinal(call.expiry_date)

\* C8: extract_volatilities returns no result unless
\* trade_date < event_date < expiry_date: every other call (here with a
\* non-negative vol and move) ends in an error.
C8_EventOrderingEnforced ==
    (call.op = "extract_volatilities" /\ ~EvOrdered
        /\ call.expiry_atf_vol >= 0 /\ call.expected_move_size >= 0) =>
        call.out.kind = "raised"

\* C9: for ordered dates and a non-negative vol and move, the returned
\* components reconstruct the whole-period variance:
\* pre^2 * days_to_event + event^2 * 1 + post^2 * days_after_event equals
\* vol^2 * total_days, to within 1% of vol^2 * total_days (volatilities in
\* percent).
C9_EventReconstruction ==
    (call.op = "extract_volatilities" /\ EvOrdered
        /\ call.expiry_atf_vol >= 0 /\ call.expected_move_size >= 0) =>
        LET o == call.out
            lhs == RAdd(RAdd(RMul(RMul(o.pre_event_vol, o.pre_event_vol),
                                  RInt(o.days_to_event)),
                             RMul(o.event_vol, o.event_vol)),
                        RMul(RMul(o.post_event_vol, o.post_event_vol),
                             RInt(o.days_after_event)))
            rhs == RInt(call.expiry_atf_vol * call.expiry_atf_vol
                            * o.total_days)
        IN /\ o.kind = "returned"
           /\ ~o.event_vol_nan
           /\ RLeq(RAbs(RSub(lhs, rhs)), RDivInt(rhs, 100))

\* C5: for every list of distinct expiries, in whatever order, the matrix
\* builder returns a matrix (it does not fail on an unsorted list) whose row
\* and column labels are in ascending date order.
C5_InputOrderInsignificant ==
    (MxTerminal /\ MxDistinct) =>
        /\ mx.pc = "returned"
        /\ \A a, b \in MxIndices :
              a < b => /\ Ordinal(mx.index[a]) < Ordinal(mx.index[b])
                       /\ Ordinal(mx.columns[a]) < Ordinal(mx.columns[b])

\* C6: the matrix builder called with two entries of the same date ends in
\* a validation error, an error other than the ordering error of a
\* mis-ordered pair, and returns no matrix.
C6_DuplicateRejected ==
    (MxTerminal /\ ~MxDistinct) =>
        /\ mx.pc = "raised"
        /\ mx.error \notin {OrderingError, ZeroDivisionError}

\* C7: the day counts of all cells of one matrix are measured from a single
\* trade date: for any two cells computed, t1 differs by exactly the
\* distance between their row dates and t2 by the distance between their
\* column dates, also when the clock advances between the two cells.
C7_SingleTradeDate ==
    mx.pc = "returned" =>
      \A a, b \in 1..Len(mx.log) :
        /\ mx.log[a].t1 - mx.log[b].t1 =
              Ordinal(mx.expiries[mx.log[a].i]) - Ordinal(mx.expiries[mx.log[b].i])
        /\ mx.log[a].t2 - mx.log[b].t2 =
              Ordinal(mx.expiries[mx.log[a].j]) - Ordinal(mx.expiries[mx.log[b].j])

\* C10: no cell is written twice and no cell (i, j) with i >= j is ever
\* written (it keeps the initial 0.0); when the builder returns, every cell
\* (i, j) with i < j has been written exactly once, with the forward vol of
\* expiry i and expiry j, and the labels number n; a single-expiry list
\* returns (a 1x1 matrix, nothing written) without error.
C10_WriteOnce ==
    /\ \A a, b \in MxIndices :
          /\ mx.writes[a][b] <= 1
          /\ a >= b => (mx.writes[a][b] = 0 /\ mx.matrix[a][b] = FloatZero)
    /\ mx.pc = "returned" =>
          /\ DOMAIN mx.index = MxIndices
          /\ DOMAIN mx.columns = MxIndices
          /\ \A a, b \in MxIndices :
                a < b =>
                  /\ mx.writes[a][b] = 1
                  /\ \E k \in 1..Len(mx.log) :
                        /\ mx.log[k].i = a
                        /\ mx.log[k].j = b
                        /\ mx.matrix[a][b] =
                              CalculateForwardVol(
                                  mx.vols[a], mx.expiries[a],
                                  mx.vols[b], mx.expiries[b],
                                  None, mx.log[k].clock).value
    /\ (MxTerminal /\ mx.n = 1) => (mx.pc = "returned" /\ mx.error = "")

\* C10 witness: the builder has returned a 3x3 matrix whose three cells
\* above the diagonal are written, one of them with NaN.
C10_Witness ==
    /\ mx.pc = "returned"
    /\ mx.n = 3
    /\ mx.writes[0][1] = 1 /\ mx.writes[0][2] = 1 /\ mx.writes[1][2] = 1
    /\ mx.writes[1][0] = 0 /\ mx.writes[2][2] = 0
    /\ mx.matrix[0][1].nan

\* C12: the day counts extract_volatilities returns are the calendar-day
\* differences of its dates, whatever the vol, the move and the calendar
\* model: total_days = days(trade, expiry), days_to_event = days(trade,
\* event), days_after_event = days(event, expiry), hence total_days =
\* days_to_event + days_after_event; trade 2024-03-01, event 2024-03-10,
\* expiry 2024-03-21 give 20, 9 and 11.
C12_DayCounts ==
    call.op = "extract_volatilities" =>
        LET o == call.out
        IN /\ o.kind = "returned"
           /\ o.total_days =
                 Ordinal(call.expiry_date) - Ordinal(call.trade_date)
           /\ o.days_to_event =
                 Ordinal(call.event_date) - Ordinal(call.trade_date)
           /\ o.days_after_event =
                 Ordinal(call.expiry_date) - Ordinal(call.event_date)
           /\ o.total_days = o.days_to_event + o.days_after_event
           /\ ( /\ call.trade_date = MkDate(2024, 3, 1)
                /\ call.event_date = MkDate(2024, 3, 10)
                /\ call.expiry_date = MkDate(2024, 3, 21) )
              => ( /\ o.total_days = 20
                   /\ o.days_to_event = 9
                   /\ o.days_after_event = 11 )

\* C12 witness: the scenario call has returned, with a negative vol and a
\* negative move.
C12_Witness ==
    /\ call.op = "extract_volatilities"
    /\ call.trade_date = MkDate(2024, 3, 1)
    /\ call.event_date = MkDate(2024, 3, 10)
    /\ call.expiry_date = MkDate(2024, 3, 21)
    /\ call.expiry_atf_vol < 0
    /\ call.expected_move_size < 0
    /\ call.out.kind = "returned"
    /\ call.out.days_after_event = 11

\* C13: calculate_forward_variance returns a value only when the trade date
\* strictly precedes both expiries: every call that returns (here with an
\* explicit trade date and non-negative vols) has t1 > 0 and t2 > 0.
C13_TradeBeforeExpiries ==
    (call.op = "calculate_forward_variance" /\ call.out.kind = "returned"
        /\ ~IsNone(call.trade_date)
        /\ call.vol1 >= 0 /\ call.vol2 >= 0) =>
        /\ FvT1 > 0
        /\ FvT2 > 0

\* C11: calculate_forward_variance and calculate_forward_vol never read the
\* system clock: a call repeated with identical arguments, however much
\* time has passed since the first, has the outcome (return or raise,
\* error, value) of the first.  (Stated for non-negative vols and calls
\* whose expiries lie after the trade date in effect.)
C11_ClockIndependent ==
    (/\ FvCall
     /\ prev.op = call.op
     /\ call.vol1 >= 0 /\ call.vol2 >= 0
     /\ PrevOut.t1 > 0 /\ FvT1 > 0) =>
        /\ call.out.kind = prev.out.kind
        /\ call.out.error = prev.out.error
        /\ call.out.value = prev.out.value

====
